---- MODULE Spec2Model ----
(***************************************************************************)
(* A model of server/whisper_transcribe.py: the command-line adapter that  *)
(* loads a Whisper model, transcribes one audio file and prints the result *)
(* as one JSON document.                                                   *)
(*                                                                         *)
(* The process is modelled statement by statement (pc names the next       *)
(* statement).  The Whisper library is the environment: importing it,      *)
(* load_model and Model.transcribe either return or raise.  Its answers    *)
(* are remembered in memo, so that a second invocation of the program      *)
(* (specification SpecTwice) meets the same, deterministic collaborator.   *)
(*                                                                         *)
(* Python values are tagged records [ty, s, n]: ty is the Python type, s   *)
(* the characters of a str, n the value of a float (whole seconds here).   *)
(* A dict is a record over all the keys it may hold; an absent key holds   *)
(* PyMissing, and subscripting it raises KeyError.                         *)
(***************************************************************************)
EXTENDS Naturals, Sequences, FiniteSets

VARIABLES
    argv,        \* sys.argv
    pc,          \* the statement the process executes next
    audio_path,  \* __main__'s audio_path / transcribe_audio's parameter
    model_size,  \* __main__'s model_size / transcribe_audio's parameter
    model,       \* transcribe_audio: model
    result,      \* transcribe_audio: result
    segments,    \* transcribe_audio: segments
    idx,         \* position of the for loop's iterator in result['segments']
    output,      \* transcribe_audio: output
    exc,         \* the exception being handled (e)
    retval,      \* what transcribe_audio returned
    stdout,      \* what the process wrote to sys.stdout, one entry per print
    stderr,      \* what was written to sys.stderr, one entry per write
    exitCode,    \* the process's exit status: <<>> while it runs, then <<code>>
    calls,       \* the calls made into the whisper library, in order
    run,         \* which invocation of the program this is
    prev,        \* what the previous invocation left (stdout, stderr, status)
    memo         \* the collaborator's answers so far (it is deterministic)

vars == <<argv, pc, audio_path, model_size, model, result, segments, idx,
          output, exc, retval, stdout, stderr, exitCode, calls, run, prev, memo>>

\* ------------------------------------------------------------------ bounds

\* Most arguments after the program name.
MaxArgs == 3
\* Most segments in a collaborator result.
MaxSegs == 2
\* Longest segment text, in characters.
MaxTextLen == 3
\* Largest timestamp, in seconds.
MaxTime == 1

\* ------------------------------------------------------- Python values

PyStr(s) == [ty |-> "str", s |-> s, n |-> 0]
PyFloat(n) == [ty |-> "float", s |-> <<>>, n |-> n]
PyNone == [ty |-> "NoneType", s |-> <<>>, n |-> 0]
\* A value json cannot serialize (a numpy array, a tensor).
PyArray == [ty |-> "ndarray", s |-> <<>>, n |-> 0]
\* Not a value: the key is absent from the dict.
PyMissing == [ty |-> "<missing>", s |-> <<>>, n |-> 0]

\* A name that is not bound yet.
Unbound == "<unbound>"

\* The characters texts are made of: a letter and two kinds of whitespace.
Chars == {"a", " ", "\n"}
\* What str.strip() with no argument removes (the ASCII part of it).
Whitespace == {" ", "\t", "\n", "\r"}

Strs(len) == UNION {[1..k -> Chars] : k \in 0..len}

\* ------------------------------------------------- the whisper library

\* Model names whisper.load_model knows; any other name raises.
KnownModels == {"base", "tiny"}
\* Audio files that exist; transcribing any other path raises.
ExistingFiles == {"clip.wav"}

\* A segment dict as whisper returns it: it has more keys than the adapter
\* reads (id stands for id, seek, tokens, ...).
SegDict(i, st, en, tx) == [id |-> i, start |-> st, end |-> en, text |-> tx]
Times == 0..MaxTime
\* A well-formed segment: text with padding, as whisper returns it.
PlainSeg(i) == SegDict(PyFloat(i), PyFloat(0), PyFloat(1), PyStr(<<" ", "a">>))

\* Segment lists whose timestamps vary freely (ordered or not, end before
\* start or not): the adapter is not to look at them.
TimedLists ==
    UNION {[1..k -> {SegDict(PyFloat(0), PyFloat(s), PyFloat(e), PyStr(<<" ", "a">>)) :
                        s \in Times, e \in Times}] : k \in 0..MaxSegs}

\* Segment lists in which one segment's text varies over every string.
TextLists ==
    {[i \in 1..k |-> IF i = j THEN SegDict(PyFloat(i), PyFloat(i), PyFloat(i), PyStr(t))
                               ELSE PlainSeg(i)] :
        k \in 1..MaxSegs, j \in 1..MaxSegs, t \in Strs(MaxTextLen)}

\* Segments that make the adapter's reshaping or json.dumps fail.
BrokenSegs ==
    { SegDict(PyFloat(0), PyMissing, PyFloat(1), PyStr(<<"a">>)),
      SegDict(PyFloat(0), PyFloat(0), PyMissing, PyStr(<<"a">>)),
      SegDict(PyFloat(0), PyFloat(0), PyFloat(1), PyMissing),
      SegDict(PyFloat(0), PyFloat(0), PyFloat(1), PyNone),
      SegDict(PyFloat(0), PyArray, PyFloat(1), PyStr(<<"a">>)),
      SegDict(PyFloat(0), PyFloat(0), PyArray, PyStr(<<"a">>)) }
BrokenLists ==
    {[i \in 1..k |-> IF i = j THEN b ELSE PlainSeg(i)] :
        k \in 1..MaxSegs, j \in 1..MaxSegs, b \in BrokenSegs}

PyList(items) == [ty |-> "list", items |-> items]
NotAList(ty) == [ty |-> ty, items |-> <<>>]

\* The dict Model.transcribe returns.
ResultDict(tx, segs, lang) == [text |-> tx, segments |-> segs, language |-> lang]

\* Transcripts as whisper returns them: with a leading blank.
ResultTexts == {PyStr(<<" ", "a">>), PyStr(<<"a", "\n">>)}
Languages == {PyStr(<<"e", "n">>), PyNone}

WellFormedResults ==
    {ResultDict(tx, PyList(l), lang) :
        tx \in ResultTexts, l \in TimedLists \cup TextLists, lang \in Languages}

MalformedResults ==
    {ResultDict(PyStr(<<"a">>), PyList(l), PyStr(<<"e", "n">>)) : l \in BrokenLists}
    \cup { ResultDict(PyMissing, PyList(<<PlainSeg(1)>>), PyStr(<<"e", "n">>)),
           ResultDict(PyStr(<<"a">>), NotAList("<missing>"), PyStr(<<"e", "n">>)),
           ResultDict(PyStr(<<"a">>), NotAList("NoneType"), PyStr(<<"e", "n">>)),
           ResultDict(PyStr(<<"a">>), PyList(<<PlainSeg(1)>>), PyMissing),
           ResultDict(PyArray, PyList(<<PlainSeg(1)>>), PyStr(<<"e", "n">>)),
           ResultDict(PyStr(<<"a">>), PyList(<<PlainSeg(1)>>), PyArray) }

Results == WellFormedResults \cup MalformedResults
NoResult == ResultDict(PyMissing, NotAList("<missing>"), PyMissing)

\* What a call into the library comes to: it returns val or raises msg.
Returned(v) == [kind |-> "return", val |-> v, msg |-> ""]
Raised(m) == [kind |-> "raise", val |-> NoResult, msg |-> m]

ImportOutcomes == {Returned(NoResult), Raised("No module named 'whisper'")}

LoadOutcomes(size) ==
    IF size \in KnownModels
    THEN {Returned(NoResult), Raised("CUDA out of memory")}
    ELSE {Raised("Model not found")}

TranscribeOutcomes(path) ==
    IF path \in ExistingFiles
    THEN {Returned(r) : r \in Results} \cup {Raised("Failed to load audio")}
    ELSE {Raised("No such file or directory")}

\* ------------------------------------------------------ the command line

ProgName == "whisper_transcribe.py"
AudioArgs == {"clip.wav", "nope.wav"}
SizeArgs == {"base", "tiny", "xl", ""}
ExtraArgs == {"--fast"}

\* Every sys.argv of at most MaxArgs arguments after the program name.
Argvs ==
    {a \in {<<ProgName>>}
           \cup {<<ProgName, p>> : p \in AudioArgs}
           \cup UNION {{<<ProgName, p, z>> \o x : p \in AudioArgs, z \in SizeArgs,
                                                  x \in [1..k -> ExtraArgs]} :
                       k \in 0..MaxArgs} :
        Len(a) <= MaxArgs + 1}

\* sys.argv[k]: Python counts from 0.
Arg(a, k) == a[k + 1]

\* len(sys.argv) < 2
MissingArgument(a) == Len(a) < 2

\* audio_path = sys.argv[1]
AudioPathArg(a) == Arg(a, 1)

DefaultModelSize == "base"

\* Mutant: model_size = sys.argv[2] or 'base' wherever there is an argv[2].
ModelSizeArgOrDefault(a) ==
    IF Len(a) > 2 /\ Arg(a, 2) # "" THEN Arg(a, 2) ELSE "base"

\* model_size = sys.argv[2] if len(sys.argv) > 2 else 'base'
ModelSizeArg(a) == IF Len(a) > 2 THEN Arg(a, 2) ELSE DefaultModelSize

UsageLine == [kind |-> "text", line |-> "Usage: whisper_transcribe.py <audio_file> [model_size]"]

\* --------------------------------------------------------- str.strip()

RECURSIVE LStrip(_)
LStrip(s) == IF s # <<>> /\ Head(s) \in Whitespace THEN LStrip(Tail(s)) ELSE s

RECURSIVE RStrip(_)
RStrip(s) ==
    IF s # <<>> /\ s[Len(s)] \in Whitespace THEN RStrip(SubSeq(s, 1, Len(s) - 1)) ELSE s

\* Mutant: lstrip() where strip() was meant.
StripLeftOnly(s) == LStrip(s)

Strip(s) == RStrip(LStrip(s))

\* ------------------------------------------------ reshaping the result

Exception(cls, msg) == [cls |-> cls, msg |-> msg]
NoException == Exception("", "")

\* str(KeyError(k)) is the repr of the key.
KeyError(k) == Exception("KeyError", "'" \o k \o "'")

OutSeg(st, en, tx) == [start |-> st, end |-> en, text |-> tx]
NoSeg == OutSeg(PyMissing, PyMissing, PyMissing)
Built(seg) == [kind |-> "return", seg |-> seg, exc |-> NoException]
Failed(e) == [kind |-> "raise", seg |-> NoSeg, exc |-> e]

\* The dict display of the loop body: its values are evaluated in order, and
\* the first that fails raises.
FormatSegment(segment) ==
    IF segment.start.ty = "<missing>" THEN Failed(KeyError("start"))
    ELSE IF segment.end.ty = "<missing>" THEN Failed(KeyError("end"))
    ELSE IF segment.text.ty = "<missing>" THEN Failed(KeyError("text"))
    ELSE IF segment.text.ty # "str"
         THEN Failed(Exception("AttributeError",
                               "'" \o segment.text.ty \o "' object has no attribute 'strip'"))
    ELSE Built(OutSeg(segment.start, segment.end, PyStr(Strip(segment.text.s))))

\* Mutant: the transcript is stripped like the segments' texts.
OutputDictTextStripped(tx, segs, lang) ==
    [text |-> IF tx.ty = "str" THEN PyStr(Strip(tx.s)) ELSE tx,
     segments |-> segs, language |-> lang]

OutputDict(tx, segs, lang) == [text |-> tx, segments |-> segs, language |-> lang]
NoOutput == OutputDict(PyMissing, <<>>, PyMissing)

\* ----------------------------------------------------------- json.dumps

JsonTypes == {"str", "float", "NoneType"}

\* A character of a str as json.dumps writes it between the quotes.
EscapeChar(c) ==
    IF c = "\n" THEN "\\n"
    ELSE IF c = "\t" THEN "\\t"
    ELSE IF c = "\r" THEN "\\r"
    ELSE IF c = "\"" THEN "\\\""
    ELSE IF c = "\\" THEN "\\\\"
    ELSE c

JsonString(s) == [jt |-> "string", s |-> [i \in 1..Len(s) |-> EscapeChar(s[i])], n |-> 0]

JsonValue(v) ==
    IF v.ty = "str" THEN JsonString(v.s)
    ELSE IF v.ty = "float" THEN [jt |-> "number", s |-> <<>>, n |-> v.n]
    ELSE [jt |-> "null", s |-> <<>>, n |-> 0]

JsonSegment(seg) ==
    [keys |-> <<"start", "end", "text">>,
     start |-> JsonValue(seg.start), end |-> JsonValue(seg.end), text |-> JsonValue(seg.text)]

\* json.dumps raises TypeError on the first value it has no encoding for.
Serializable(out) ==
    /\ out.text.ty \in JsonTypes
    /\ \A i \in 1..Len(out.segments) :
          /\ out.segments[i].start.ty \in JsonTypes
          /\ out.segments[i].end.ty \in JsonTypes
          /\ out.segments[i].text.ty \in JsonTypes
    /\ out.language.ty \in JsonTypes

NotSerializable == Exception("TypeError", "Object is not JSON serializable")

\* json.dumps(output): one JSON object, its members in the dict's order.
ResultDocument(out) ==
    [kind |-> "json", keys |-> <<"text", "segments", "language">>,
     text |-> JsonValue(out.text),
     segments |-> [i \in 1..Len(out.segments) |-> JsonSegment(out.segments[i])],
     language |-> JsonValue(out.language)]

\* Mutant: the exception's class name where its message was meant.
ErrorDocumentClassName(e) == [kind |-> "json", keys |-> <<"error">>, error |-> e.cls]

\* Mutant: the message names something of the process that wrote it.
ErrorDocumentOfProcess(e) ==
    [kind |-> "json", keys |-> <<"error">>, error |-> e.msg \o " in the " \o run \o " process"]

\* json.dumps({'error': str(e)})
ErrorDocument(e) == [kind |-> "json", keys |-> <<"error">>, error |-> e.msg]

\* What the interpreter writes for an exception nothing caught.
Traceback(e) == [kind |-> "traceback", error |-> e.msg]

\* ------------------------------------------- the collaborator's answers

NoMemo == [imp |-> <<>>, load |-> <<>>, trans |-> <<>>]

LoadCall(size, o) ==
    [fn |-> "load_model", name |-> size, outcome |-> o.kind, msg |-> o.msg]
TranscribeCall(path, lang, verbose, o) ==
    [fn |-> "transcribe", audio |-> path, language |-> lang, verbose |-> verbose,
     outcome |-> o.kind, msg |-> o.msg]

\* The library is deterministic: asked the same thing again, it answers the same.
ImportAnswers ==
    IF memo.imp # <<>> THEN {memo.imp[1]} ELSE ImportOutcomes

LoadAnswers(size) ==
    IF memo.load # <<>> /\ memo.load[1].name = size
    THEN {memo.load[1].answer} ELSE LoadOutcomes(size)

TranscribeAnswers(path, lang, verbose) ==
    IF /\ memo.trans # <<>>
       /\ memo.trans[1].audio = path
       /\ memo.trans[1].language = lang
       /\ memo.trans[1].verbose = verbose
    THEN {memo.trans[1].answer} ELSE TranscribeOutcomes(path)

\* ------------------------------------------------------------- the process

NoPrev == [stdout |-> <<>>, stderr |-> <<>>, exitCode |-> <<>>]

\* A new process: nothing bound, nothing written.
ProcessStart ==
    /\ pc = "import"
    /\ audio_path = Unbound
    /\ model_size = Unbound
    /\ model = Unbound
    /\ result = NoResult
    /\ segments = <<>>
    /\ idx = 0
    /\ output = NoOutput
    /\ exc = NoException
    /\ retval = <<>>
    /\ stdout = <<>>
    /\ stderr = <<>>
    /\ exitCode = <<>>
    /\ calls = <<>>

Init ==
    /\ argv \in Argvs
    /\ ProcessStart
    /\ run = "first"
    /\ prev = NoPrev
    /\ memo = NoMemo

\* import whisper (json and sys are always there).  The import statements are
\* outside every try: a failure ends the process with a traceback, status 1.
ImportModules ==
    /\ pc = "import"
    /\ \E o \in ImportAnswers :
          /\ memo' = [memo EXCEPT !.imp = <<o>>]
          /\ IF o.kind = "return"
             THEN /\ pc' = "main"
                  /\ UNCHANGED <<stderr, exitCode>>
             ELSE /\ pc' = "exited"
                  /\ stderr' = Append(stderr, Traceback(Exception("ModuleNotFoundError", o.msg)))
                  /\ exitCode' = <<1>>
    /\ UNCHANGED <<argv, audio_path, model_size, model, result, segments, idx,
                   output, exc, retval, stdout, calls, run, prev>>

\* if len(sys.argv) < 2: print usage to stderr; sys.exit(1)
MainUsage ==
    /\ pc = "main"
    /\ MissingArgument(argv)
    /\ stderr' = Append(stderr, UsageLine)
    /\ exitCode' = <<1>>
    /\ pc' = "exited"
    /\ UNCHANGED <<argv, audio_path, model_size, model, result, segments, idx,
                   output, exc, retval, stdout, calls, run, prev, memo>>

\* audio_path = sys.argv[1]; model_size = ...; transcribe_audio is entered.
MainArguments ==
    /\ pc = "main"
    /\ ~MissingArgument(argv)
    /\ audio_path' = AudioPathArg(argv)
    /\ model_size' = ModelSizeArg(argv)
    /\ pc' = "load"
    /\ UNCHANGED <<argv, model, result, segments, idx, output, exc, retval,
                   stdout, stderr, exitCode, calls, run, prev, memo>>

\* model = whisper.load_model(model_size)
LoadModel ==
    /\ pc = "load"
    /\ \E o \in LoadAnswers(model_size) :
          /\ memo' = [memo EXCEPT !.load = <<[name |-> model_size, answer |-> o]>>]
          /\ calls' = Append(calls, LoadCall(model_size, o))
          /\ IF o.kind = "return"
             THEN /\ model' = "Whisper"
                  /\ pc' = "transcribe"
                  /\ UNCHANGED exc
             ELSE /\ exc' = Exception("RuntimeError", o.msg)
                  /\ pc' = "except"
                  /\ UNCHANGED model
    /\ UNCHANGED <<argv, audio_path, model_size, result, segments, idx, output,
                   retval, stdout, stderr, exitCode, run, prev>>

TranscribeLanguage == "en"
\* Mutant: verbose left on.
TranscribeVerboseOn == TRUE

TranscribeVerbose == FALSE

\* result = model.transcribe(audio_path, language='en', verbose=False)
Transcribe ==
    /\ pc = "transcribe"
    /\ \E o \in TranscribeAnswers(audio_path, TranscribeLanguage, TranscribeVerbose) :
          /\ memo' = [memo EXCEPT !.trans =
                         <<[audio |-> audio_path, language |-> TranscribeLanguage,
                            verbose |-> TranscribeVerbose, answer |-> o]>>]
          /\ calls' = Append(calls, TranscribeCall(audio_path, TranscribeLanguage,
                                                   TranscribeVerbose, o))
          /\ IF o.kind = "return"
             THEN /\ result' = o.val
                  /\ pc' = "format"
                  /\ UNCHANGED exc
             ELSE /\ exc' = Exception("RuntimeError", o.msg)
                  /\ pc' = "except"
                  /\ UNCHANGED result
    /\ UNCHANGED <<argv, audio_path, model_size, model, segments, idx, output,
                   retval, stdout, stderr, exitCode, run, prev>>

\* segments = []; for segment in result['segments']: the list is looked up
\* and an iterator over it made.
BeginFormat ==
    /\ pc = "format"
    /\ segments' = <<>>
    /\ IF result.segments.ty = "<missing>"
       THEN /\ exc' = KeyError("segments")
            /\ pc' = "except"
            /\ UNCHANGED idx
       ELSE IF result.segments.ty # "list"
       THEN /\ exc' = Exception("TypeError",
                                "'" \o result.segments.ty \o "' object is not iterable")
            /\ pc' = "except"
            /\ UNCHANGED idx
       ELSE /\ idx' = 1
            /\ pc' = "loop"
            /\ UNCHANGED exc
    /\ UNCHANGED <<argv, audio_path, model_size, model, result, output, retval,
                   stdout, stderr, exitCode, calls, run, prev, memo>>

\* Mutant: segments.insert(0, {...}) where append was meant.
LoopSegmentPrepend ==
    /\ pc = "loop"
    /\ idx <= Len(result.segments.items)
    /\ LET o == FormatSegment(result.segments.items[idx])
       IN  IF o.kind = "return"
           THEN /\ segments' = <<o.seg>> \o segments
                /\ idx' = idx + 1
                /\ UNCHANGED <<pc, exc>>
           ELSE /\ exc' = o.exc
                /\ pc' = "except"
                /\ UNCHANGED <<segments, idx>>
    /\ UNCHANGED <<argv, audio_path, model_size, model, result, output, retval,
                   stdout, stderr, exitCode, calls, run, prev, memo>>

\* One turn of the loop: segments.append({...}) for the iterator's next item.
LoopSegment ==
    /\ pc = "loop"
    /\ idx <= Len(result.segments.items)
    /\ LET o == FormatSegment(result.segments.items[idx])
       IN  IF o.kind = "return"
           THEN /\ segments' = Append(segments, o.seg)
                /\ idx' = idx + 1
                /\ UNCHANGED <<pc, exc>>
           ELSE /\ exc' = o.exc
                /\ pc' = "except"
                /\ UNCHANGED <<segments, idx>>
    /\ UNCHANGED <<argv, audio_path, model_size, model, result, output, retval,
                   stdout, stderr, exitCode, calls, run, prev, memo>>

\* The iterator is exhausted; output = {'text': ..., 'segments': ..., 'language': ...}
BuildOutput ==
    /\ pc = "loop"
    /\ idx > Len(result.segments.items)
    /\ IF result.text.ty = "<missing>"
       THEN /\ exc' = KeyError("text")
            /\ pc' = "except"
            /\ UNCHANGED output
       ELSE IF result.language.ty = "<missing>"
       THEN /\ exc' = KeyError("language")
            /\ pc' = "except"
            /\ UNCHANGED output
       ELSE /\ output' = OutputDict(result.text, segments, result.language)
            /\ pc' = "print"
            /\ UNCHANGED exc
    /\ UNCHANGED <<argv, audio_path, model_size, model, result, segments, idx,
                   retval, stdout, stderr, exitCode, calls, run, prev, memo>>

\* Mutant: json.dump(output, sys.stdout), which writes as it serializes: what
\* came before the value that cannot be serialized is on stdout already.
PrintOutputStreaming ==
    /\ pc = "print"
    /\ IF Serializable(output)
       THEN /\ stdout' = Append(stdout, ResultDocument(output))
            /\ retval' = <<0>>
            /\ pc' = "sysexit"
            /\ UNCHANGED exc
       ELSE /\ stdout' = Append(stdout, [kind |-> "partial"])
            /\ exc' = NotSerializable
            /\ pc' = "except"
            /\ UNCHANGED retval
    /\ UNCHANGED <<argv, audio_path, model_size, model, result, segments, idx,
                   output, stderr, exitCode, calls, run, prev, memo>>

\* print(json.dumps(output)); return 0.  json.dumps has returned or raised
\* before print writes anything.
PrintOutput ==
    /\ pc = "print"
    /\ IF Serializable(output)
       THEN /\ stdout' = Append(stdout, ResultDocument(output))
            /\ retval' = <<0>>
            /\ pc' = "sysexit"
            /\ UNCHANGED exc
       ELSE /\ exc' = NotSerializable
            /\ pc' = "except"
            /\ UNCHANGED <<stdout, retval>>
    /\ UNCHANGED <<argv, audio_path, model_size, model, result, segments, idx,
                   output, stderr, exitCode, calls, run, prev, memo>>

\* except Exception as e: print(json.dumps({'error': str(e)}), file=sys.stderr); return 1
HandleException ==
    /\ pc = "except"
    /\ stderr' = Append(stderr, ErrorDocument(exc))
    /\ retval' = <<1>>
    /\ pc' = "sysexit"
    /\ UNCHANGED <<argv, audio_path, model_size, model, result, segments, idx,
                   output, exc, stdout, exitCode, calls, run, prev, memo>>

\* sys.exit(transcribe_audio(audio_path, model_size))
SysExit ==
    /\ pc = "sysexit"
    /\ exitCode' = retval
    /\ pc' = "exited"
    /\ UNCHANGED <<argv, audio_path, model_size, model, result, segments, idx,
                   output, exc, retval, stdout, stderr, calls, run, prev, memo>>

\* The program is started again with the same command line: a new process,
\* which keeps nothing of the one before.
Reinvoke ==
    /\ pc = "exited"
    /\ run = "first"
    /\ run' = "second"
    /\ prev' = [stdout |-> stdout, stderr |-> stderr, exitCode |-> exitCode]
    /\ pc' = "import"
    /\ audio_path' = Unbound
    /\ model_size' = Unbound
    /\ model' = Unbound
    /\ result' = NoResult
    /\ segments' = <<>>
    /\ idx' = 0
    /\ output' = NoOutput
    /\ exc' = NoException
    /\ retval' = <<>>
    /\ stdout' = <<>>
    /\ stderr' = <<>>
    /\ exitCode' = <<>>
    /\ calls' = <<>>
    /\ UNCHANGED <<argv, memo>>

Next ==
    \/ ImportModules
    \/ MainUsage
    \/ MainArguments
    \/ LoadModel
    \/ Transcribe
    \/ BeginFormat
    \/ LoopSegment
    \/ BuildOutput
    \/ PrintOutput
    \/ HandleException
    \/ SysExit

Spec == Init /\ [][Next]_vars

NextTwice == Next \/ Reinvoke

SpecTwice == Init /\ [][NextTwice]_vars

\* ------------------------------------------------- reading the streams

Exited == pc = "exited"

\* The inverse of EscapeChar: what a JSON parser reads back.
UnescapeChar(c) ==
    IF c = "\\n" THEN "\n"
    ELSE IF c = "\\t" THEN "\t"
    ELSE IF c = "\\r" THEN "\r"
    ELSE IF c = "\\\"" THEN "\""
    ELSE IF c = "\\\\" THEN "\\"
    ELSE c

\* json.loads of one value of a document.
Parsed(j) ==
    IF j.jt = "string" THEN PyStr([i \in 1..Len(j.s) |-> UnescapeChar(j.s[i])])
    ELSE IF j.jt = "number" THEN PyFloat(j.n)
    ELSE PyNone

IsUsage(w) == w.kind = "text" /\ w = UsageLine
IsErrorDocument(w) == w.kind = "json" /\ w.keys = <<"error">>
IsResultDocument(w) == w.kind = "json" /\ w.keys = <<"text", "segments", "language">>

LoadCalls == {i \in 1..Len(calls) : calls[i].fn = "load_model"}
TranscribeCalls == {i \in 1..Len(calls) : calls[i].fn = "transcribe"}
SomeCallRaised == \E i \in 1..Len(calls) : calls[i].outcome = "raise"
TranscribeReturned ==
    \E i \in TranscribeCalls : calls[i].outcome = "return"
ImportSucceeded == memo.imp # <<>> /\ memo.imp[1].kind = "return"

\* A result the adapter can reshape and serialize: every key it reads is
\* there, the segments are a list, each text is a str, every value has a
\* JSON encoding.
WellFormedSegment(g) ==
    /\ g.start.ty \in JsonTypes
    /\ g.end.ty \in JsonTypes
    /\ g.text.ty = "str"
WellFormed(r) ==
    /\ r.text.ty \in JsonTypes
    /\ r.language.ty \in JsonTypes
    /\ r.segments.ty = "list"
    /\ \A i \in 1..Len(r.segments.items) : WellFormedSegment(r.segments.items[i])

UsageOutcome ==
    /\ Len(stderr) = 1 /\ IsUsage(stderr[1])
    /\ stdout = <<>>
    /\ exitCode = <<1>>
ErrorOutcome ==
    /\ Len(stderr) = 1 /\ IsErrorDocument(stderr[1])
    /\ stdout = <<>>
    /\ exitCode = <<1>>
SuccessOutcome ==
    /\ Len(stdout) = 1 /\ IsResultDocument(stdout[1])
    /\ stderr = <<>>
    /\ exitCode = <<0>>

\* --------------------------------------------------------------- claims

\* C1: started with no argument after the program name, the program writes
\* the usage line to stderr, nothing to stdout, exits with status 1 and
\* calls neither load_model nor transcribe.
C1_UsageOnMissingArgument ==
    (Exited /\ MissingArgument(argv)) => (UsageOutcome /\ calls = <<>>)

\* C1 on the runs whose imports succeeded: there the usage outcome holds.
C1_UsageWhenImported ==
    (Exited /\ MissingArgument(argv) /\ ImportSucceeded) => (UsageOutcome /\ calls = <<>>)

\* C2: when load_model or transcribe raised, the run ends with exactly one
\* JSON object {"error": message} on stderr, the message being that of the
\* exception raised, nothing on stdout, and status 1.
C2_CollaboratorErrorReported ==
    (Exited /\ SomeCallRaised) =>
        /\ ErrorOutcome
        /\ stderr[1].error = calls[Len(calls)].msg

C2_Witness ==
    /\ Exited
    /\ Len(calls) = 2
    /\ calls[2].outcome = "raise"
    /\ calls[2].audio = "nope.wav"
    /\ stderr = <<ErrorDocument(Exception("RuntimeError", "No such file or directory"))>>

\* C3: every run ends as exactly one of: usage line on stderr, status 1;
\* one JSON error document on stderr, status 1; one JSON result document
\* on stdout and nothing on stderr, status 0; never with an exception that
\* nothing caught.
C3_StableContractOnEveryPath ==
    Exited => (UsageOutcome \/ ErrorOutcome \/ SuccessOutcome)

\* C3 on the runs whose imports succeeded: there the three outcomes are all
\* there is, and which one is decided by the arguments and the collaborator.
C3_ContractWhenImported ==
    (Exited /\ ImportSucceeded) =>
        /\ UsageOutcome \/ ErrorOutcome \/ SuccessOutcome
        /\ UsageOutcome <=> MissingArgument(argv)
        /\ (exitCode = <<0>>) <=> (stdout # <<>>)
        /\ stdout = <<>> \/ stderr = <<>>

\* C4: when load_model and transcribe both returned and the result is well
\* formed, stdout holds exactly one JSON object with the keys text, segments
\* and language in it, whose text and language read back as the
\* collaborator's result['text'] and result['language'], and the status is 0.
C4_ResultDocumentOnSuccess ==
    (Exited /\ TranscribeReturned /\ WellFormed(result)) =>
        /\ SuccessOutcome
        /\ Parsed(stdout[1].text) = result.text
        /\ Parsed(stdout[1].language) = result.language

C4_Witness ==
    /\ Exited
    /\ TranscribeReturned
    /\ WellFormed(result)
    /\ result.text = PyStr(<<"a", "\n">>)
    /\ result.language = PyNone
    /\ Len(stdout) = 1

\* C5 as stated: load_model gets argv[2] whenever a second argument is
\* present, and gets "base" exactly when (if and only if) none is present;
\* transcribe always gets argv[1].
C5_DefaultExactlyWhenAbsent ==
    /\ \A i \in LoadCalls :
          /\ Len(argv) > 2 => calls[i].name = Arg(argv, 2)
          /\ (calls[i].name = "base") <=> (Len(argv) = 2)
    /\ \A i \in TranscribeCalls : calls[i].audio = Arg(argv, 1)

\* C5 amended: load_model gets argv[2] whenever a second argument is present,
\* whatever its value and whatever follows it, and gets "base" when none is
\* present (as it does when argv[2] is "base"); transcribe always gets argv[1].
C5_ModelSizeAndPathPassedThrough ==
    /\ \A i \in LoadCalls :
          /\ Len(argv) > 2 => calls[i].name = Arg(argv, 2)
          /\ Len(argv) = 2 => calls[i].name = "base"
    /\ \A i \in TranscribeCalls : calls[i].audio = Arg(argv, 1)

C5_Witness ==
    /\ Len(argv) = 4
    /\ Arg(argv, 2) = ""
    /\ Len(calls) = 1
    /\ calls[1].name = ""

\* The segments' timestamps are in order: start <= end in each, and starts
\* do not decrease.
Chronological(starts, ends) ==
    /\ \A i \in 1..Len(starts) : starts[i].n <= ends[i].n
    /\ \A i \in 1..(Len(starts) - 1) : starts[i].n <= starts[i + 1].n

\* C6: on success the output has as many segments as the collaborator's
\* result, segment i carrying the collaborator's segment i start and end;
\* so if the collaborator's segments are in chronological order, the
\* output's are.
C6_SegmentsPassedThrough ==
    (Exited /\ stdout # <<>>) =>
        LET in == result.segments.items
            out == stdout[1].segments
        IN  /\ Len(out) = Len(in)
            /\ \A i \in 1..Len(in) :
                  /\ Parsed(out[i].start) = in[i].start
                  /\ Parsed(out[i].end) = in[i].end
            /\ Chronological([i \in 1..Len(in) |-> in[i].start],
                             [i \in 1..Len(in) |-> in[i].end])
                  => Chronological([i \in 1..Len(out) |-> Parsed(out[i].start)],
                                   [i \in 1..Len(out) |-> Parsed(out[i].end)])

\* The collaborator's segments are out of order and one ends before it
\* starts: the output carries them as they are.
C6_Witness ==
    /\ Exited
    /\ stdout # <<>>
    /\ Len(result.segments.items) = 2
    /\ result.segments.items[1].start = PyFloat(1)
    /\ result.segments.items[1].end = PyFloat(0)
    /\ result.segments.items[2].start = PyFloat(0)
    /\ stdout[1].segments[1].start.n = 1
    /\ stdout[1].segments[1].end.n = 0

\* t is s without its leading and trailing whitespace: a slice of s that
\* neither begins nor ends with whitespace, all of s outside it whitespace.
IsTrimOf(t, s) ==
    /\ t = <<>> \/ (t[1] \notin Whitespace /\ t[Len(t)] \notin Whitespace)
    /\ \E lo \in 1..(Len(s) + 1) :
          /\ lo + Len(t) - 1 <= Len(s)
          /\ t = SubSeq(s, lo, lo + Len(t) - 1)
          /\ \A k \in 1..Len(s) : (k < lo \/ k >= lo + Len(t)) => s[k] \in Whitespace

\* C7: on success every output segment's text is the collaborator's text for
\* that segment without its leading and trailing whitespace, the rest
\* unchanged: no output text begins or ends with whitespace.
C7_SegmentTextStripped ==
    (Exited /\ stdout # <<>>) =>
        \A i \in 1..Len(stdout[1].segments) :
            /\ stdout[1].segments[i].text.jt = "string"
            /\ IsTrimOf(Parsed(stdout[1].segments[i].text).s, result.segments.items[i].text.s)

C7_Witness ==
    /\ Exited
    /\ Len(stdout) = 1
    /\ Len(result.segments.items) = 2
    /\ result.segments.items[2].text = PyStr(<<"\n", "a", " ">>)
    /\ Parsed(stdout[1].segments[2].text) = PyStr(<<"a">>)

CallDiscipline ==
    /\ Len(calls) <= 2
    /\ Cardinality(LoadCalls) <= 1
    /\ Cardinality(TranscribeCalls) <= 1
    /\ calls # <<>> => calls[1].fn = "load_model"
    /\ \A i \in TranscribeCalls :
          /\ i = 2
          /\ calls[1].outcome = "return"
          /\ calls[i].language = "en"
          /\ calls[i].verbose = FALSE
    /\ \A i \in 1..Len(calls) : calls[i].outcome = "raise" => i = Len(calls)
    /\ stdout # <<>> => TranscribeReturned

C10_FormattingFailureReported ==
    /\ (Exited /\ TranscribeReturned /\ ~WellFormed(result)) => ErrorOutcome
    /\ Len(stdout) <= 1
    /\ stdout # <<>> => (pc \in {"sysexit", "exited"} /\ Serializable(output) /\ stderr = <<>>)

\* The second segment cannot be serialized: the first was already reshaped.
C10_Witness ==
    /\ Exited
    /\ TranscribeReturned
    /\ Len(result.segments.items) = 2
    /\ result.segments.items[2].end = PyArray
    /\ Len(segments) = 2
    /\ stderr = <<ErrorDocument(NotSerializable)>>
    /\ stdout = <<>>

====
